---- MODULE Spec2Model ----
(***************************************************************************)
(* Model of the MuseScore engraving XmlReader (src/engraving/rw/           *)
(* xmlreader.cpp): the connector pool (addConnectorInfo, removeConnector,  *)
(* checkConnectors, reconnectBrokenConnectors, ~XmlReader), the position   *)
(* cursor (location, fillLocation, setLocation, rtick, setTick, incTick),  *)
(* the user text style table and the tuplet registry.                      *)
(*                                                                         *)
(* ConnectorInfoReader, Location, Fraction, Tuplet and the inline          *)
(* accessors of xml.h are not part of xmlreader.cpp; they are modelled     *)
(* from the specification text and are marked so in the model map.         *)
(***************************************************************************)
EXTENDS Integers, Sequences, FiniteSets, TLC

VARIABLES
    frag,               \* handle -> immutable fragment data [id, role, tick, track, ctype]
    prev,               \* handle -> handle of the previous fragment of its chain, or None
    next,               \* handle -> handle of the next fragment of its chain, or None
    updated,            \* handle -> whether update() has run on the fragment
    connectors,         \* _connectors: the active fragments, in insertion order
    pendingConnectors,  \* _pendingConnectors: the deferred fragments, in queue order
    score,              \* the addToScore calls so far: [chain, paste] in call order
    hung,               \* TRUE once a chain walk can no longer terminate
    destroyed,          \* TRUE once ~XmlReader has run
    released,           \* handles whose connector was released by ~XmlReader
    deleted,            \* handles whose released connector was deleted by ~XmlReader
    repairRuns,         \* reconnectBrokenConnectors calls in a row so far: 0, 1, or 2 for more
    lastOp,             \* the name of the last operation
    pasteMode,          \* _pasteMode
    tick,               \* _tick, a fraction [n, d]
    intTick,            \* _intTick, the cached integer tick
    track,              \* _track
    trackOffset,        \* _trackOffset
    tickOffset,         \* _tickOffset, a fraction
    curMeasure,         \* _curMeasure: an index into Measures, or None
    crashed,            \* TRUE once an assertion aborted or a null measure was read
    locArg,             \* the Location handed to the last fillLocation or setLocation
    locForce,           \* forceAbsFrac of the last fillLocation
    locOut,             \* the Location the last fillLocation left
    userTextStyles,     \* the table of [name, ss] entries, in insertion order
    styleCalls,         \* the addUserTextStyle calls so far: [name, ret]
    tupletElems,        \* tuplet id -> the ticks of its elements, in stream order
    tupletIds,          \* the keys of _tuplets
    tupletFreed,        \* the tuplets deleted by checkTuplets
    tupletLog,          \* the calls checkTuplets made: [op, t, elems]
    tupletsChecked,     \* TRUE once checkTuplets has run
    tupletCrashed,      \* TRUE when a call on a deleted tuplet faulted
    attrs,              \* the attributes of the element, until the stream leaves its start tag
    elemText,           \* the text of the element, until the stream leaves it
    token,              \* tokenType(): the token the stream stands on
    debugBuild,         \* TRUE in a debug build: Q_ASSERT and the NDEBUG blocks are compiled in
    aborted,            \* TRUE once a Q_ASSERT of a reading function aborted the program
    parseOut,           \* the last accessor or reading call and what it returned
    spanner,            \* _spanner: the list of [id, s] entries, in insertion order
    spannerOut          \* the last registry call: its arguments, the list it found, its result

connVars == <<frag, prev, next, updated, connectors, pendingConnectors, score, hung,
              destroyed, released, deleted, repairRuns>>
cursorVars == <<pasteMode, tick, intTick, track, trackOffset, tickOffset, curMeasure,
                crashed, locArg, locForce, locOut>>

styleVars == <<userTextStyles, styleCalls>>
tupletVars == <<tupletElems, tupletIds, tupletFreed, tupletLog, tupletsChecked,
                tupletCrashed>>

parseVars == <<attrs, elemText, token, debugBuild, aborted, parseOut>>
spannerVars == <<spanner, spannerOut>>

vars == <<connVars, cursorVars, styleVars, tupletVars, parseVars, spannerVars, lastOp>>

None == 0

\* Largest number of fragments created in one run.
MaxFrags == 3

\* Largest number of fragments created in one run of the repair study.
MaxRepairFrags == 4

\* Longest pendingConnectors queue.
MaxPending == 2

INT_MAX == 2147483647

Ids == {5, 6}
Roles == {"start", "end"}
Ticks == {0, 1, 2}
Tracks == {0}
CTypes == {"spanner"}

FragInputs == [id : Ids, role : Roles, tick : Ticks, track : Tracks, ctype : CTypes]

(***************************************************************************)
(* ConnectorInfoReader, from the specification: a fragment has an id, a    *)
(* role and an anchor; it links to its chain neighbours through prev/next. *)
(* A pool P carries the fields the connector operations read and write.    *)
(***************************************************************************)
Pool == [frag |-> frag, prev |-> prev, next |-> next, updated |-> updated,
         connectors |-> connectors, score |-> score, hung |-> hung]

hasPrevious(P, c) == P.frag[c].role = "end"
hasNext(P, c) == P.frag[c].role = "start"

Abs(x) == IF x < 0 THEN -x ELSE x

\* A start anchor temporally precedes its end anchor.
Before(a, b) == a.tick < b.tick

RECURSIVE Walk(_, _, _)
\* Follow link from c to the fragment with no further link; None when the
\* walk does not end within fuel steps (the links form a cycle).
Walk(link, c, fuel) ==
    IF link[c] = None THEN c
    ELSE IF fuel = 0 THEN None
    ELSE Walk(link, link[c], fuel - 1)

findFirst(P, c) == Walk(P.prev, c, Len(P.prev))
findLast(P, c) == Walk(P.next, c, Len(P.next))

RECURSIVE ChainFrom(_, _, _)
\* The fragments from c along next, c first.
ChainFrom(P, c, fuel) ==
    IF c = None \/ fuel = 0 THEN <<>>
    ELSE <<c>> \o ChainFrom(P, P.next[c], fuel - 1)

finishedLeft(P, c) ==
    LET h == findFirst(P, c) IN h # None /\ ~hasPrevious(P, h)

finishedRight(P, c) ==
    LET t == findLast(P, c) IN t # None /\ ~hasNext(P, t)

finished(P, c) == finishedLeft(P, c) /\ finishedRight(P, c)

update(P, c) == [P EXCEPT !.updated[c] = TRUE]

Link(P, a, b) == [P EXCEPT !.next[a] = b, !.prev[b] = a]

\* a, a start fragment with no successor yet, takes b, an end fragment of
\* the same id with no predecessor yet, anchored after it.
CanLink(P, a, b) ==
    /\ hasNext(P, a) /\ P.next[a] = None
    /\ hasPrevious(P, b) /\ P.prev[b] = None
    /\ P.frag[a].id = P.frag[b].id
    /\ Before(P.frag[a], P.frag[b])

connect(P, this, other) ==
    IF this = other THEN [ok |-> FALSE, pool |-> P]
    ELSE IF CanLink(P, other, this) THEN [ok |-> TRUE, pool |-> Link(P, other, this)]
    ELSE IF CanLink(P, this, other) THEN [ok |-> TRUE, pool |-> Link(P, this, other)]
    ELSE [ok |-> FALSE, pool |-> P]

forceConnect(P, this, other) ==
    IF this = other THEN P ELSE Link(P, this, other)

TickWeight == 1000
TrackWeight == 100

distance(a, b) == TickWeight * Abs(b.tick - a.tick) + TrackWeight * Abs(b.track - a.track)

orderedConnectionDistance(P, c1, c2) ==
    IF /\ hasNext(P, c1) /\ P.next[c1] = None
       /\ hasPrevious(P, c2) /\ P.prev[c2] = None
    THEN distance(P.frag[c1], P.frag[c2])
    ELSE INT_MAX

\* Positive: this continues into other; negative: other continues into this.
connectionDistance(P, this, other) ==
    LET distThisOther == orderedConnectionDistance(P, this, other)
        distOtherThis == orderedConnectionDistance(P, other, this)
    IN IF distOtherThis < distThisOther THEN -distOtherThis ELSE distThisOther

addToScore(P, c, paste) ==
    LET r == findFirst(P, c)
    IN IF r = None THEN [P EXCEPT !.hung = TRUE]
       ELSE [P EXCEPT !.score = Append(@, [chain |-> ChainFrom(P, r, Len(P.frag)),
                                          paste |-> paste])]

\* removeConnector without the walk to the chain start: only c is dropped.
removeConnector_OnlyThis(P, c) ==
    [P EXCEPT !.connectors = SelectSeq(@, LAMBDA x : x # c)]

(***************************************************************************)
(* XmlReader::removeConnector                                              *)
(***************************************************************************)
removeConnector(P, c) ==
    LET head == findFirst(P, c)
        chain == ChainFrom(P, head, Len(P.frag))
        gone == {chain[i] : i \in 1..Len(chain)}
    IN IF head = None THEN [P EXCEPT !.hung = TRUE]
       ELSE [P EXCEPT !.connectors = SelectSeq(@, LAMBDA x : x \notin gone)]

\* The scan with forceConnect in place of connect: the first other entry
\* takes the new fragment whatever the two are.
ScanConnect_Force(P, i, c1, paste) ==
    IF i > Len(P.connectors) \/ P.connectors[i] = c1 THEN P
    ELSE LET c2 == P.connectors[i]
             pool == forceConnect(P, c2, c1)
         IN IF finished(pool, c2)
            THEN removeConnector(addToScore(pool, c2, paste), c2)
            ELSE pool

RECURSIVE ScanConnect_Last(_, _, _, _)
\* The scan run from the newest entry to the oldest.
ScanConnect_Last(P, i, c1, paste) ==
    IF i > Len(P.connectors) THEN P
    ELSE LET c2 == P.connectors[Len(P.connectors) + 1 - i]
             r == connect(P, c2, c1)
         IN IF r.ok
            THEN IF finished(r.pool, c2)
                 THEN removeConnector(addToScore(r.pool, c2, paste), c2)
                 ELSE r.pool
            ELSE ScanConnect_Last(P, i + 1, c1, paste)

(***************************************************************************)
(* XmlReader::addConnectorInfo                                             *)
(***************************************************************************)
RECURSIVE ScanConnect(_, _, _, _)
\* The loop over _connectors from position i: the first entry whose connect
\* succeeds ends the scan.
ScanConnect(P, i, c1, paste) ==
    IF i > Len(P.connectors) THEN P
    ELSE LET c2 == P.connectors[i]
             r == connect(P, c2, c1)
         IN IF r.ok
            THEN IF finished(r.pool, c2)
                 THEN removeConnector(addToScore(r.pool, c2, paste), c2)
                 ELSE r.pool
            ELSE ScanConnect(P, i + 1, c1, paste)

addConnectorInfo(P, c, paste) ==
    LET P1 == [P EXCEPT !.connectors = Append(@, c)]
    IN ScanConnect(update(P1, c), 1, c, paste)

\* A fragment just read from the stream: a fresh handle with no links.
NewFrag(P, f) ==
    [P EXCEPT !.frag = Append(@, f), !.prev = Append(@, None),
              !.next = Append(@, None), !.updated = Append(@, FALSE)]

SetPool(P) ==
    /\ frag' = P.frag
    /\ prev' = P.prev
    /\ next' = P.next
    /\ updated' = P.updated
    /\ connectors' = P.connectors
    /\ score' = P.score
    /\ hung' = P.hung

Running == ~destroyed /\ ~hung

AddInfo(inputs, max) ==
    /\ Running
    /\ Len(frag) < max
    /\ \E f \in inputs :
          LET c == Len(frag) + 1
          IN /\ SetPool(addConnectorInfo(NewFrag(Pool, f), c, pasteMode))
             /\ lastOp' = "addConnectorInfo"
    /\ repairRuns' = 0
    /\ UNCHANGED <<spannerVars, pendingConnectors, destroyed, released, deleted, cursorVars, styleVars, tupletVars, parseVars>>

AddConnectorInfo == AddInfo(FragInputs, MaxFrags)

(***************************************************************************)
(* XmlReader::addConnectorInfoLater: the fragment is queued, nothing else. *)
(***************************************************************************)
AddLater(inputs, max) ==
    /\ Running
    /\ Len(frag) < max
    /\ Len(pendingConnectors) < MaxPending
    /\ \E f \in inputs :
          LET c == Len(frag) + 1
          IN /\ SetPool(NewFrag(Pool, f))
             /\ pendingConnectors' = Append(pendingConnectors, c)
             /\ lastOp' = "addConnectorInfoLater"
    /\ repairRuns' = 0
    /\ UNCHANGED <<spannerVars, destroyed, released, deleted, cursorVars, styleVars, tupletVars, parseVars>>

AddConnectorInfoLater == AddLater(FragInputs, MaxFrags)

(***************************************************************************)
(* XmlReader::checkConnectors                                              *)
(***************************************************************************)
RECURSIVE checkConnectorsFrom(_, _, _, _)
checkConnectorsFrom(P, q, i, paste) ==
    IF i > Len(q) THEN P
    ELSE checkConnectorsFrom(addConnectorInfo(P, q[i], paste), q, i + 1, paste)

RECURSIVE checkConnectors_Reversed(_, _, _)
\* The queue replayed from its newest entry to its oldest.
checkConnectors_Reversed(P, q, paste) ==
    IF q = <<>> THEN P
    ELSE checkConnectors_Reversed(addConnectorInfo(P, q[Len(q)], paste),
                                  SubSeq(q, 1, Len(q) - 1), paste)

checkConnectors(P, q, paste) == checkConnectorsFrom(P, q, 1, paste)

CheckConnectors ==
    /\ Running
    /\ pendingConnectors # <<>>
    /\ SetPool(checkConnectors(Pool, pendingConnectors, pasteMode))
    /\ pendingConnectors' = <<>>
    /\ lastOp' = "checkConnectors"
    /\ repairRuns' = 0
    /\ UNCHANGED <<spannerVars, destroyed, released, deleted, cursorVars, styleVars, tupletVars, parseVars>>

(***************************************************************************)
(* XmlReader::reconnectBrokenConnectors                                    *)
(***************************************************************************)
\* The entry appended for _connectors[i] and _connectors[j], j < i.
brokenPair(P, i, j) ==
    LET c1 == P.connectors[i]
        c2 == P.connectors[j]
        d == connectionDistance(P, c1, c2)
    IN IF d >= 0 THEN [d |-> d, first |-> c1, second |-> c2]
       ELSE [d |-> -d, first |-> c2, second |-> c1]

brokenPairs(P) ==
    {brokenPair(P, i, j) : <<i, j>> \in
        {ij \in (1..Len(P.connectors)) \X (1..Len(P.connectors)) : ij[2] < ij[1]}}

distanceSort(p1, p2) == p1.d < p2.d

\* The join without the test for the infinite distance.
joinStep_NoSentinel(P, e) ==
    IF P.next[e.first] # None \/ P.prev[e.second] # None THEN P
    ELSE forceConnect(P, e.first, e.second)

\* The join without the test that both sides are still open.
joinStep_NoGuard(P, e) ==
    IF e.d = INT_MAX THEN P
    ELSE forceConnect(P, e.first, e.second)

joinStep(P, e) ==
    IF e.d = INT_MAX THEN P
    ELSE IF P.next[e.first] # None \/ P.prev[e.second] # None THEN P
    ELSE forceConnect(P, e.first, e.second)

RECURSIVE joinSorted(_, _)
\* The join loop over the entries R in every order std::sort may leave them
\* in: ascending by distanceSort, entries of equal distance in any order.
\* Links are only ever added, so an entry the loop skips now is skipped
\* wherever the sort puts it, and is dropped without branching on its place.
joinSorted(P, R) ==
    LET live == {e \in R : joinStep(P, e) # P}
        least == {x \in live : \A y \in live : ~distanceSort(y, x)}
    IN IF live = {} THEN {P}
       ELSE UNION {joinSorted(joinStep(P, e), live \ {e}) : e \in least}

\* The finished fragments themselves, not their chain starts.
reconnectedSet_NoStart(P) ==
    {P.connectors[i] :
        i \in {k \in 1..Len(P.connectors) : finished(P, P.connectors[k])}}

\* The set named reconnected: the chain starts of the finished fragments.
reconnectedSet(P) ==
    {findFirst(P, P.connectors[i]) :
        i \in {k \in 1..Len(P.connectors) : finished(P, P.connectors[k])}}

RECURSIVE commitAll_NoRemove(_, _, _, _)
\* The commit loop without removeConnector: the chains stay active.
commitAll_NoRemove(P, order, i, paste) ==
    IF i > Len(order) THEN P
    ELSE commitAll_NoRemove(addToScore(P, order[i], paste), order, i + 1, paste)

RECURSIVE commitAll(_, _, _, _)
commitAll(P, order, i, paste) ==
    IF i > Len(order) THEN P
    ELSE commitAll(removeConnector(addToScore(P, order[i], paste), order[i]),
                   order, i + 1, paste)

\* The orders a QSet of the given handles may be iterated in.
RECURSIVE Orders(_)
Orders(S) ==
    IF S = {} THEN {<<>>}
    ELSE UNION {{<<e>> \o t : t \in Orders(S \ {e})} : e \in S}

\* The pools reconnectBrokenConnectors may leave.
reconnectBrokenConnectors(P, paste) ==
    IF P.connectors = <<>> THEN {P}
    ELSE UNION {{commitAll(J, o, 1, paste) : o \in Orders(reconnectedSet(J))} :
                J \in joinSorted(P, brokenPairs(P))}

ReconnectBrokenConnectors ==
    /\ Running
    /\ repairRuns' = IF repairRuns = 0 THEN 1 ELSE 2
    /\ \E P \in reconnectBrokenConnectors(Pool, pasteMode) : SetPool(P)
    /\ lastOp' = "reconnectBrokenConnectors"
    /\ UNCHANGED <<spannerVars, pendingConnectors, destroyed, released, deleted, cursorVars, styleVars, tupletVars, parseVars>>

(***************************************************************************)
(* XmlReader::~XmlReader                                                   *)
(***************************************************************************)
SeqSet(q) == {q[i] : i \in 1..Len(q)}

\* releaseConnector hands out the fragment's connector, null when it has none.
releaseConnector(c) == frag[c].ctype

isTuplet(conn) == conn = "tuplet"

\* The connectors ~XmlReader deletes: an active fragment's unless it is null
\* or a tuplet, a pending fragment's whatever it is (deleting null does nothing).
dtorDeleted ==
    {c \in SeqSet(connectors) :
        releaseConnector(c) # "none" /\ ~isTuplet(releaseConnector(c))}
    \cup {c \in SeqSet(pendingConnectors) : releaseConnector(c) # "none"}

XmlReaderDtor ==
    /\ ~destroyed
    /\ destroyed' = TRUE
    /\ IF connectors # <<>> \/ pendingConnectors # <<>>
       THEN /\ released' = SeqSet(connectors) \cup SeqSet(pendingConnectors)
            /\ deleted' = dtorDeleted
       ELSE UNCHANGED <<spannerVars, released, deleted>>
    /\ lastOp' = "~XmlReader"
    /\ UNCHANGED <<spannerVars, frag, prev, next, updated, connectors, pendingConnectors, score,
                   hung, repairRuns, cursorVars, styleVars, tupletVars, parseVars>>

\* Largest number of fragments created in one run of the teardown study.
MaxDtorFrags == 3

DtorCTypes == {"tuplet", "spanner", "none"}
DtorInputs == [id : {5}, role : Roles, tick : {0, 1}, track : Tracks, ctype : DtorCTypes]

DtorAddConnectorInfo == AddInfo(DtorInputs, MaxDtorFrags)
DtorAddConnectorInfoLater == AddLater(DtorInputs, MaxDtorFrags)

(***************************************************************************)
(* Fraction, from the specification: a rational [n, d] with d > 0.         *)
(***************************************************************************)
Fr(n, d) == [n |-> n, d |-> d]

RECURSIVE GCD(_, _)
GCD(a, b) == IF b = 0 THEN a ELSE GCD(b, a % b)

LCM(a, b) == (a * b) \div GCD(a, b)

\* Lowest terms.
reduced(f) ==
    LET g == GCD(f.d, f.n % f.d) IN Fr(f.n \div g, f.d \div g)

FrAdd(a, b) ==
    IF a.d = b.d THEN Fr(a.n + b.n, a.d)
    ELSE LET m == LCM(a.d, b.d)
         IN Fr(a.n * (m \div a.d) + b.n * (m \div b.d), m)

FrNeg(a) == Fr(-a.n, a.d)
FrSub(a, b) == FrAdd(a, FrNeg(b))
\* Equal as rationals.
FrEq(a, b) == reduced(a) = reduced(b)
FrLeq(a, b) == a.n * b.d <= b.n * a.d

\* Ticks per quarter note.
Division == 480

\* The fraction in ticks, rounded to the nearest integer.
ticks(f) ==
    IF f.n = -1 /\ f.d = 1 THEN -1
    ELSE LET sgn == IF f.n < 0 THEN -1 ELSE 1
         IN sgn * ((sgn * f.n * Division * 4 + f.d \div 2) \div f.d)

fromTicks(t) ==
    IF t = -1 THEN Fr(-1, 1) ELSE reduced(Fr(t, Division * 4))

(***************************************************************************)
(* Location, from the specification: [track, frac, measure, rel]; the      *)
(* fields of an absolute Location default to an unset sentinel.            *)
(***************************************************************************)
INT_MIN == -INT_MAX - 1

LocationAbsolute == [track |-> INT_MIN, frac |-> Fr(INT_MIN, 1), measure |-> INT_MIN,
                     rel |-> FALSE]

toAbsolute(l, ref) ==
    IF ~l.rel THEN l
    ELSE [track |-> l.track + ref.track, frac |-> FrAdd(l.frac, ref.frac),
          measure |-> l.measure + ref.measure, rel |-> FALSE]

(***************************************************************************)
(* The cursor.  Measures are those of the score being read: measure m      *)
(* starts at MeasureTick(m) and has the structural index m - 1.            *)
(***************************************************************************)
Measures == <<Fr(0, 1), Fr(1, 1)>>
MeasureTick(m) == Measures[m]

\* The accessors of xml.h.
tickOf == FrAdd(tick, tickOffset)
trackOf == track + trackOffset
currentMeasureIndex == IF curMeasure = None THEN 0 ELSE curMeasure - 1

\* The fields of the cursor the position operations write.
Cursor == [tick |-> tick, intTick |-> intTick, track |-> track, crashed |-> crashed]

(***************************************************************************)
(* XmlReader::rtick                                                        *)
(***************************************************************************)
rtick ==
    IF curMeasure # None THEN FrSub(tick, MeasureTick(curMeasure)) ELSE tick

(***************************************************************************)
(* XmlReader::setTick, XmlReader::incTick                                  *)
(***************************************************************************)
setTick(C, f) ==
    LET t == reduced(f) IN [C EXCEPT !.tick = t, !.intTick = ticks(t)]

incTick(C, f) ==
    [C EXCEPT !.tick = reduced(FrAdd(C.tick, f)), !.intTick = C.intTick + ticks(f)]

setTrack(C, val) == [C EXCEPT !.track = val]

(***************************************************************************)
(* XmlReader::fillLocation, XmlReader::location                            *)
(***************************************************************************)
\* fillLocation writing the position whatever the caller had set.
fillLocation_Overwrite(l, forceAbsFrac) ==
    LET absFrac == pasteMode \/ forceAbsFrac
    IN [l EXCEPT !.track = trackOf,
                 !.frac = IF absFrac THEN tickOf ELSE rtick,
                 !.measure = IF absFrac THEN 0 ELSE currentMeasureIndex]

fillLocation(l, forceAbsFrac) ==
    LET defaults == LocationAbsolute
        absFrac == pasteMode \/ forceAbsFrac
        l1 == IF l.track = defaults.track THEN [l EXCEPT !.track = trackOf] ELSE l
        l2 == IF FrEq(l1.frac, defaults.frac)
              THEN [l1 EXCEPT !.frac = IF absFrac THEN tickOf ELSE rtick]
              ELSE l1
    IN IF l2.measure = defaults.measure
       THEN [l2 EXCEPT !.measure = IF absFrac THEN 0 ELSE currentMeasureIndex]
       ELSE l2

location(forceAbsFrac) == fillLocation(LocationAbsolute, forceAbsFrac)

(***************************************************************************)
(* XmlReader::setLocation.  The result is the set of cursors the call may  *)
(* leave: a failed Q_ASSERT aborts in a debug build and is skipped in a    *)
(* release build; reading the tick of a null current measure is undefined  *)
(* and is taken to abort or to yield any of the UndefinedTicks.            *)
(***************************************************************************)
UndefinedTicks == {Fr(0, 1), Fr(1, 4)}

Crash(C) == [C EXCEPT !.crashed = TRUE]

\* The absolute case advancing by the measure's tick in paste mode too.
setLocationAbsolute_AlwaysAdvance(C, l) ==
    LET C1 == setTick(setTrack(C, l.track - trackOffset), FrSub(l.frac, tickOffset))
    IN IF curMeasure = None THEN {C1}
       ELSE {incTick(C1, MeasureTick(curMeasure))}

setLocationAbsolute(C, l) ==
    LET C1 == setTick(setTrack(C, l.track - trackOffset), FrSub(l.frac, tickOffset))
        advanced == IF curMeasure = None
                    THEN {Crash(C1)} \cup {incTick(C1, g) : g \in UndefinedTicks}
                    ELSE {incTick(C1, MeasureTick(curMeasure))}
    IN IF pasteMode THEN {C1}
       ELSE IF l.measure # currentMeasureIndex THEN {Crash(C1)} \cup advanced
       ELSE advanced

setLocation(C, l) ==
    IF l.rel
    THEN LET newLoc == toAbsolute(l, location(FALSE))
             intTicks == ticks(l.frac)
         IN IF FrEq(C.tick, fromTicks(C.intTick + intTicks))
            THEN {setTrack([C EXCEPT !.intTick = C.intTick + intTicks],
                           newLoc.track - trackOffset)}
            ELSE setLocationAbsolute(C, newLoc)
    ELSE setLocationAbsolute(C, l)

\* Bounds of the cursor study: |tick| <= MaxCursorTick whole notes and
\* |track| <= MaxCursorTrack.
MaxCursorTick == 2
MaxCursorTrack == 1

InCursorBounds(C) ==
    /\ Abs(C.tick.n) <= MaxCursorTick * C.tick.d
    /\ Abs(C.track) <= MaxCursorTrack

SetCursor(C) ==
    /\ InCursorBounds(C)
    /\ tick' = C.tick
    /\ intTick' = C.intTick
    /\ track' = C.track
    /\ crashed' = C.crashed

NoLocation == [track |-> 0, frac |-> Fr(0, 1), measure |-> 0, rel |-> FALSE]

ClearLoc ==
    /\ locArg' = NoLocation
    /\ locForce' = FALSE
    /\ locOut' = NoLocation

FracInputs == {Fr(1, 4), Fr(2, 4), Fr(1, 1)}
OffsetInputs == {Fr(0, 1), Fr(1, 4)}
TrackInputs == {0, 1}
TrackFields == {INT_MIN, 1}
FracFields == {Fr(INT_MIN, 1), Fr(1, 4)}
MeasureFields == {INT_MIN, 1}

\* The Locations a caller hands to fillLocation: each field set or left unset.
FillInputs == [track : TrackFields, frac : FracFields, measure : MeasureFields,
               rel : {FALSE}]

\* The Locations read from the stream and handed to setLocation.
LocInputs == [track : TrackInputs, frac : {Fr(0, 1), Fr(1, 4)}, measure : {0, 1},
              rel : BOOLEAN]

CursorRunning == ~crashed

SetTickOf(inputs) ==
    /\ CursorRunning
    /\ \E f \in inputs : SetCursor(setTick(Cursor, f))
    /\ ClearLoc
    /\ lastOp' = "setTick"
    /\ UNCHANGED <<spannerVars, connVars, styleVars, tupletVars, parseVars, pasteMode, trackOffset, tickOffset, curMeasure>>

SetTick == SetTickOf(FracInputs)

IncTickOf(inputs) ==
    /\ CursorRunning
    /\ \E f \in inputs : SetCursor(incTick(Cursor, f))
    /\ ClearLoc
    /\ lastOp' = "incTick"
    /\ UNCHANGED <<spannerVars, connVars, styleVars, tupletVars, parseVars, pasteMode, trackOffset, tickOffset, curMeasure>>

IncTick == IncTickOf(FracInputs)

\* Durations of the tick study: a seventh of a whole note, which is no whole
\* number of ticks, a quarter note and a third of a whole note.
TickInputs == {Fr(1, 7), Fr(1, 4), Fr(1, 3)}

TickSetTick == SetTickOf(TickInputs)
TickIncTick == IncTickOf(TickInputs)

SetTrack ==
    /\ CursorRunning
    /\ \E t \in TrackInputs : SetCursor(setTrack(Cursor, t))
    /\ ClearLoc
    /\ lastOp' = "setTrack"
    /\ UNCHANGED <<spannerVars, connVars, styleVars, tupletVars, parseVars, pasteMode, trackOffset, tickOffset, curMeasure>>

SetTrackOffset ==
    /\ CursorRunning
    /\ \E t \in TrackInputs : trackOffset' = t
    /\ ClearLoc
    /\ lastOp' = "setTrackOffset"
    /\ UNCHANGED <<spannerVars, connVars, styleVars, tupletVars, parseVars, pasteMode, tick, intTick, track, crashed, tickOffset,
                   curMeasure>>

SetTickOffset ==
    /\ CursorRunning
    /\ \E f \in OffsetInputs : tickOffset' = f
    /\ ClearLoc
    /\ lastOp' = "setTickOffset"
    /\ UNCHANGED <<spannerVars, connVars, styleVars, tupletVars, parseVars, pasteMode, tick, intTick, track, crashed, trackOffset,
                   curMeasure>>

SetCurrentMeasure ==
    /\ CursorRunning
    /\ \E m \in 0..Len(Measures) : curMeasure' = m
    /\ ClearLoc
    /\ lastOp' = "setCurrentMeasure"
    /\ UNCHANGED <<spannerVars, connVars, styleVars, tupletVars, parseVars, pasteMode, tick, intTick, track, crashed, trackOffset,
                   tickOffset>>

SetPasteMode ==
    /\ CursorRunning
    /\ \E b \in BOOLEAN : pasteMode' = b
    /\ ClearLoc
    /\ lastOp' = "setPasteMode"
    /\ UNCHANGED <<spannerVars, connVars, styleVars, tupletVars, parseVars, tick, intTick, track, crashed, trackOffset, tickOffset,
                   curMeasure>>

FillLocation ==
    /\ CursorRunning
    /\ \E l \in FillInputs, force \in BOOLEAN :
          /\ locArg' = l
          /\ locForce' = force
          /\ locOut' = fillLocation(l, force)
    /\ lastOp' = "fillLocation"
    /\ UNCHANGED <<spannerVars, connVars, styleVars, tupletVars, parseVars, pasteMode, tick, intTick, track, crashed, trackOffset,
                   tickOffset, curMeasure>>

\* setLocation of a Location read from the stream, or of location().
SetLocation ==
    /\ CursorRunning
    /\ \E l \in LocInputs \cup {location(FALSE)} :
          /\ \E C \in setLocation(Cursor, l) : SetCursor(C)
          /\ locArg' = l
    /\ locForce' = FALSE
    /\ locOut' = NoLocation
    /\ lastOp' = "setLocation"
    /\ UNCHANGED <<spannerVars, connVars, styleVars, tupletVars, parseVars, pasteMode, trackOffset, tickOffset, curMeasure>>

(***************************************************************************)
(* XmlReader::addUserTextStyle, XmlReader::lookupUserTextStyle.            *)
(* TextStyleType: USER(k) is the k-th user slot, TEXT_TYPES the value     *)
(* that is no slot.                                                        *)
(***************************************************************************)
USER(k) == k
TEXT_TYPES == 0

\* The slot choice with the last branch handing out USER(12) again.
styleSlot_NoLimit(n) == IF n < 12 THEN USER(n + 1) ELSE USER(12)

\* The slot chosen for a table of n entries.
styleSlot(n) ==
    CASE n = 0 -> USER(1)
      [] n = 1 -> USER(2)
      [] n = 2 -> USER(3)
      [] n = 3 -> USER(4)
      [] n = 4 -> USER(5)
      [] n = 5 -> USER(6)
      [] n = 6 -> USER(7)
      [] n = 7 -> USER(8)
      [] n = 8 -> USER(9)
      [] n = 9 -> USER(10)
      [] n = 10 -> USER(11)
      [] n = 11 -> USER(12)
      [] OTHER -> TEXT_TYPES

\* The table and the returned value.
addUserTextStyle(table, name) ==
    LET id == styleSlot(Len(table))
    IN [table |-> IF id # TEXT_TYPES THEN Append(table, [name |-> name, ss |-> id])
                  ELSE table,
        ret |-> id]

RECURSIVE lookupFrom(_, _, _)
lookupFrom(table, name, i) ==
    IF i > Len(table) THEN TEXT_TYPES
    ELSE IF table[i].name = name THEN table[i].ss
    ELSE lookupFrom(table, name, i + 1)

lookupUserTextStyle(table, name) == lookupFrom(table, name, 1)

\* Largest number of addUserTextStyle calls in one run.
MaxStyleCalls == 13

\* The k-th style read from the file is named k or 100 + k, so names never
\* repeat.
StyleNames(k) == {k, 100 + k}

AddUserTextStyle ==
    /\ Len(styleCalls) < MaxStyleCalls
    /\ \E name \in StyleNames(Len(styleCalls) + 1) :
          LET r == addUserTextStyle(userTextStyles, name)
          IN /\ userTextStyles' = r.table
             /\ styleCalls' = Append(styleCalls, [name |-> name, ret |-> r.ret])
    /\ lastOp' = "addUserTextStyle"
    /\ UNCHANGED <<spannerVars, connVars, cursorVars, tupletVars, parseVars>>

(***************************************************************************)
(* XmlReader::addTuplet, XmlReader::checkTuplets.  Tuplet, from the        *)
(* specification: sortElements puts the elements in ascending time order;  *)
(* sanitizeTuplet and addMissingElements are recorded as calls.            *)
(***************************************************************************)
RECURSIVE InsertSorted(_, _)
InsertSorted(q, x) ==
    IF q = <<>> THEN <<x>>
    ELSE IF x < Head(q) THEN <<x>> \o q
    ELSE <<Head(q)>> \o InsertSorted(Tail(q), x)

RECURSIVE sortElements(_)
sortElements(q) ==
    IF q = <<>> THEN <<>>
    ELSE InsertSorted(sortElements(SubSeq(q, 1, Len(q) - 1)), q[Len(q)])

Call(op, t, elems) == [op |-> op, t |-> t, elems |-> elems]

\* A tuplet registry state T: [elems, freed, log, crashed].  A call is
\* logged with the elements the tuplet holds when it is made.
RECURSIVE checkPass1_SanitizeFirst(_, _, _)
\* The first loop with sanitizeTuplet called before sortElements.
checkPass1_SanitizeFirst(T, o, i) ==
    IF i > Len(o) THEN T
    ELSE LET t == o[i]
         IN IF T.elems[t] = <<>>
            THEN checkPass1_SanitizeFirst(
                     [T EXCEPT !.freed = @ \cup {t},
                               !.log = Append(@, Call("delete", t, <<>>))], o, i + 1)
            ELSE checkPass1_SanitizeFirst(
                     [T EXCEPT !.elems[t] = sortElements(T.elems[t]),
                               !.log = @ \o <<Call("sanitizeTuplet", t, T.elems[t]),
                                              Call("sortElements", t, T.elems[t])>>],
                     o, i + 1)

RECURSIVE checkPass1(_, _, _)
\* The first loop over tuplets(), iterated in the order o.
checkPass1(T, o, i) ==
    IF i > Len(o) THEN T
    ELSE LET t == o[i]
         IN IF T.elems[t] = <<>>
            THEN checkPass1([T EXCEPT !.freed = @ \cup {t},
                                      !.log = Append(@, Call("delete", t, <<>>))],
                            o, i + 1)
            ELSE LET sorted == sortElements(T.elems[t])
                 IN checkPass1([T EXCEPT !.elems[t] = sorted,
                                         !.log = @ \o <<Call("sortElements", t, T.elems[t]),
                                                        Call("sanitizeTuplet", t, sorted)>>],
                               o, i + 1)

RECURSIVE checkPass2(_, _, _, _)
\* The second loop over tuplets(), which still holds every key.  A call on a
\* deleted tuplet reads freed memory: it faults (fault) or runs on what the
\* memory still holds.
checkPass2(T, o, i, fault) ==
    IF i > Len(o) THEN T
    ELSE LET called == [T EXCEPT !.log = Append(@, Call("addMissingElements", o[i],
                                                        T.elems[o[i]]))]
         IN IF o[i] \in T.freed /\ fault
            THEN [called EXCEPT !.crashed = TRUE]
            ELSE checkPass2(called, o, i + 1, fault)

checkTuplets(T, o, fault) == checkPass2(checkPass1(T, o, 1), o, 1, fault)

\* Largest number of tuplets read in one run.
MaxTuplets == 3

ElementInputs == {<<>>, <<1>>, <<1, 2>>, <<2, 1>>}

AddTuplet ==
    /\ ~tupletsChecked
    /\ Len(tupletElems) < MaxTuplets
    /\ \E e \in ElementInputs :
          /\ tupletElems' = Append(tupletElems, e)
          /\ tupletIds' = tupletIds \cup {Len(tupletElems) + 1}
    /\ lastOp' = "addTuplet"
    /\ UNCHANGED <<spannerVars, connVars, cursorVars, styleVars, parseVars, tupletFreed, tupletLog,
                   tupletsChecked, tupletCrashed>>

\* tuplets() is a hash: its iteration order is any order of its keys, the
\* same in both loops.
CheckTuplets ==
    /\ ~tupletsChecked
    /\ \E o \in Orders(tupletIds), fault \in BOOLEAN :
          LET T == checkTuplets([elems |-> tupletElems, freed |-> tupletFreed,
                                 log |-> tupletLog, crashed |-> tupletCrashed],
                                o, fault)
          IN /\ tupletElems' = T.elems
             /\ tupletFreed' = T.freed
             /\ tupletLog' = T.log
             /\ tupletCrashed' = T.crashed
    /\ tupletsChecked' = TRUE
    /\ lastOp' = "checkTuplets"
    /\ UNCHANGED <<spannerVars, connVars, cursorVars, styleVars, parseVars, tupletIds>>

(***************************************************************************)
(* Strings are sequences of one-character strings.  QString::toInt and     *)
(* QString::toDouble, from Qt: the number the whole string spells, 0 when  *)
(* it spells none.                                                         *)
(***************************************************************************)
Digits == {"0", "1", "2", "3", "4", "5", "6", "7", "8", "9"}

DigitVal(c) ==
    CASE c = "0" -> 0 [] c = "1" -> 1 [] c = "2" -> 2 [] c = "3" -> 3 [] c = "4" -> 4
      [] c = "5" -> 5 [] c = "6" -> 6 [] c = "7" -> 7 [] c = "8" -> 8 [] c = "9" -> 9

RECURSIVE digitsValue(_)
digitsValue(q) ==
    IF q = <<>> THEN 0
    ELSE 10 * digitsValue(SubSeq(q, 1, Len(q) - 1)) + DigitVal(q[Len(q)])

AllDigits(q) == \A i \in 1..Len(q) : q[i] \in Digits

Signed(q) == q # <<>> /\ q[1] \in {"-", "+"}
Unsigned(q) == IF Signed(q) THEN Tail(q) ELSE q
Sign(q) == IF q # <<>> /\ q[1] = "-" THEN -1 ELSE 1

toInt(q) ==
    LET body == Unsigned(q)
    IN IF body # <<>> /\ AllDigits(body) THEN Sign(q) * digitsValue(body) ELSE 0

RECURSIVE Pow10(_)
Pow10(k) == IF k = 0 THEN 1 ELSE 10 * Pow10(k - 1)

\* A double is kept as the exact decimal fraction the string spells.
toDouble(q) ==
    LET body == Unsigned(q)
        dots == {i \in 1..Len(body) : body[i] = "."}
        digits == SelectSeq(body, LAMBDA c : c # ".")
        places == IF dots = {} THEN 0 ELSE Len(body) - (CHOOSE i \in dots : TRUE)
    IN IF Cardinality(dots) <= 1 /\ digits # <<>> /\ AllDigits(digits)
       THEN reduced(Fr(Sign(q) * digitsValue(digits), Pow10(places)))
       ELSE Fr(0, 1)

\* QString::indexOf, leftRef, midRef: positions count from 0.
indexOf(q, ch) ==
    LET hits == {i \in 1..Len(q) : q[i] = ch}
    IN IF hits = {} THEN -1 ELSE (CHOOSE i \in hits : \A j \in hits : i <= j) - 1

leftRef(q, n) == SubSeq(q, 1, n)
midRef(q, pos) == SubSeq(q, pos + 1, Len(q))

(***************************************************************************)
(* The token stream, from QXmlStreamReader: the reader stands on a token   *)
(* of a document that is one element e with attributes and text.  attrs    *)
(* (a function from the keys present to their values) and elemText hold    *)
(* what the stream has not left behind yet; a stream S is [token, attrs,   *)
(* text].                                                                  *)
(***************************************************************************)
AttrKeys == {"z", "n"}
AllKeys == {"z", "n", "x", "y", "w", "h", "r", "g", "b", "a"}

\* The order the attributes stand in in the document.
KeyOrder == <<"z", "n", "x", "y", "w", "h", "r", "g", "b", "a">>

NoAttrs == [s \in {} |-> <<>>]

Stream == [token |-> token, attrs |-> attrs, text |-> elemText]

\* QXmlStreamReader::readNext: StartDocument, the start tag, the text if
\* there is any, the end tag, EndDocument; reading on gives Invalid.
readNext(S) ==
    CASE S.token = "NoToken" -> [S EXCEPT !.token = "StartDocument"]
      [] S.token = "StartDocument" -> [S EXCEPT !.token = "StartElement"]
      [] S.token = "StartElement" ->
            IF S.text # <<>>
            THEN [token |-> "Characters", attrs |-> NoAttrs, text |-> S.text]
            ELSE [token |-> "EndElement", attrs |-> NoAttrs, text |-> <<>>]
      [] S.token = "Characters" ->
            [token |-> "EndElement", attrs |-> NoAttrs, text |-> <<>>]
      [] S.token = "EndElement" -> [S EXCEPT !.token = "EndDocument"]
      [] OTHER -> [S EXCEPT !.token = "Invalid"]

\* QXmlStreamReader::name and text of the current token.
name(S) == IF S.token \in {"StartElement", "EndElement"} THEN <<"e">> ELSE <<>>
text(S) == IF S.token = "Characters" THEN S.text ELSE <<>>

isWhitespace(S) ==
    /\ S.token = "Characters"
    /\ \A i \in 1..Len(S.text) : S.text[i] = " "

RECURSIVE elementTextFrom(_, _)
\* The loop of QXmlStreamReader::readElementText.
elementTextFrom(S, s) ==
    LET S1 == readNext(S)
    IN IF S1.token = "Characters" THEN elementTextFrom(S1, s \o text(S1))
       ELSE [S |-> S1, ret |-> s]

\* QXmlStreamReader::readElementText: on a start tag the text up to the end
\* tag, the stream left on the end tag; elsewhere nothing, the stream left
\* where it is.
readElementText(S) ==
    IF S.token = "StartElement" THEN elementTextFrom(S, <<>>)
    ELSE [S |-> S, ret |-> <<>>]

RECURSIVE skipFrom(_, _)
\* QXmlStreamReader::skipCurrentElement: reads on until the end tag that
\* closes the current element, or until Invalid.
skipFrom(S, depth) ==
    IF depth = 0 THEN S
    ELSE LET S1 == readNext(S)
         IN IF S1.token = "Invalid" THEN S1
            ELSE IF S1.token = "EndElement" THEN skipFrom(S1, depth - 1)
            ELSE IF S1.token = "StartElement" THEN skipFrom(S1, depth + 1)
            ELSE skipFrom(S1, depth)

skipCurrentElement(S) == skipFrom(S, 1)

RECURSIVE readNextStartElement(_)
\* QXmlStreamReader::readNextStartElement.
readNextStartElement(S) ==
    LET S1 == readNext(S)
    IN IF S1.token \in {"Invalid", "EndElement", "StartElement"} THEN S1
       ELSE readNextStartElement(S1)

\* QString::toHtmlEscaped.
EscapeChar(c) ==
    CASE c = "<" -> <<"&", "l", "t", ";">>
      [] c = ">" -> <<"&", "g", "t", ";">>
      [] c = "&" -> <<"&", "a", "m", "p", ";">>
      [] c = "\"" -> <<"&", "q", "u", "o", "t", ";">>
      [] OTHER -> <<c>>

RECURSIVE toHtmlEscaped(_)
toHtmlEscaped(q) ==
    IF q = <<>> THEN <<>> ELSE EscapeChar(Head(q)) \o toHtmlEscaped(Tail(q))

(***************************************************************************)
(* attributes(): hasAttribute and value, from QXmlStreamAttributes: the    *)
(* value of an absent key is the empty string.  Only a start tag has       *)
(* attributes.                                                             *)
(***************************************************************************)
hasAttribute(S, s) == S.token = "StartElement" /\ s \in DOMAIN S.attrs
value(S, s) == IF hasAttribute(S, s) THEN S.attrs[s] ELSE <<>>

(***************************************************************************)
(* XmlReader::intAttribute, doubleAttribute, attribute, called with the    *)
(* stream on S.                                                            *)
(***************************************************************************)
intAttributeDefault(S, s, default) ==
    IF hasAttribute(S, s) THEN toInt(value(S, s)) ELSE default

intAttribute(S, s) == toInt(value(S, s))

doubleAttribute(S, s) == toDouble(value(S, s))

doubleAttributeDefault(S, s, default) ==
    IF hasAttribute(S, s) THEN toDouble(value(S, s)) ELSE default

attributeDefault(S, s, default) ==
    IF hasAttribute(S, s) THEN value(S, s) ELSE default

\* xml.h: attribute(s) without a default returns attributes().value(s).
attribute(S, s) == value(S, s)

(***************************************************************************)
(* XmlReader::readFraction                                                 *)
(***************************************************************************)
\* readFraction taking text without a slash for no text at all.
readFraction_NoTicks ==
    LET z == toInt(attributeDefault(Stream, "z", <<"0">>))
        n == toInt(attributeDefault(Stream, "n", <<"1">>))
        str == readElementText(Stream).ret
        i == indexOf(str, "/")
    IN IF i # -1
       THEN Fr(toInt(leftRef(str, i)), toInt(midRef(str, i + 1)))
       ELSE Fr(z, n)

\* The Fraction readFraction returns; the stream is left where
\* readElementText leaves it.
readFraction ==
    LET z == toInt(attributeDefault(Stream, "z", <<"0">>))
        n == toInt(attributeDefault(Stream, "n", <<"1">>))
        str == readElementText(Stream).ret
        i == indexOf(str, "/")
    IN IF str # <<>>
       THEN IF i = -1 THEN fromTicks(toInt(str))
            ELSE Fr(toInt(leftRef(str, i)), toInt(midRef(str, i + 1)))
       ELSE Fr(z, n)

(***************************************************************************)
(* XmlReader::unknown, readPoint, readColor, readSize, readScale,          *)
(* readRect, readDouble, readBool, htmlToString, readXml.  Each gives the  *)
(* stream it leaves and what it returns.  Q_ASSERT and the NDEBUG blocks   *)
(* are compiled in the debug build only.                                   *)
(***************************************************************************)
\* Q_ASSERT(tokenType() == QXmlStreamReader::StartElement) fails.
AssertFails(S, dbg) == dbg /\ S.token # "StartElement"

unknown(S) == skipCurrentElement(S)

readPoint(S, dbg) ==
    LET S1 == IF dbg /\ ~hasAttribute(S, "x") THEN unknown(S) ELSE S
        S2 == IF dbg /\ ~hasAttribute(S1, "y") THEN unknown(S1) ELSE S1
        x == doubleAttributeDefault(S2, "x", Fr(0, 1))
        y == doubleAttributeDefault(S2, "y", Fr(0, 1))
    IN [S |-> readNext(S2), ret |-> <<x, y>>]

readColor(S) ==
    [S |-> skipCurrentElement(S),
     ret |-> <<intAttribute(S, "r"), intAttribute(S, "g"), intAttribute(S, "b"),
               intAttributeDefault(S, "a", 255)>>]

readSize(S) ==
    [S |-> skipCurrentElement(S),
     ret |-> <<doubleAttributeDefault(S, "w", Fr(0, 1)),
               doubleAttributeDefault(S, "h", Fr(0, 1))>>]

readScale(S) == readSize(S)

readRect(S) ==
    [S |-> skipCurrentElement(S),
     ret |-> <<doubleAttributeDefault(S, "x", Fr(0, 1)),
               doubleAttributeDefault(S, "y", Fr(0, 1)),
               doubleAttributeDefault(S, "w", Fr(0, 1)),
               doubleAttributeDefault(S, "h", Fr(0, 1))>>]

readDouble(S, min, max) ==
    LET r == readElementText(S)
        val == toDouble(r.ret)
    IN [S |-> r.S,
        ret |-> IF ~FrLeq(min, val) THEN min
                ELSE IF ~FrLeq(val, max) THEN max
                ELSE val]

readBool(S) ==
    LET S1 == readNext(S)
    IN IF S1.token = "Characters"
       THEN [S |-> readNext(S1), ret |-> toInt(text(S1)) # 0]
       ELSE [S |-> S1, ret |-> TRUE]

RECURSIVE attributesText(_, _)
\* The attributes of the start tag as htmlToString writes them, from the
\* i-th key on.
attributesText(S, i) ==
    IF i > Len(KeyOrder) THEN <<>>
    ELSE (IF hasAttribute(S, KeyOrder[i])
          THEN <<" ", KeyOrder[i], "=", "\"">> \o value(S, KeyOrder[i]) \o <<"\"">>
          ELSE <<>>) \o attributesText(S, i + 1)

RECURSIVE htmlToString(_, _)
RECURSIVE htmlToStringLoop(_, _)
\* The for (;;) loop of htmlToString.
htmlToStringLoop(S, s) ==
    LET S1 == readNext(S)
    IN CASE S1.token = "StartElement" ->
               LET h == htmlToString(S1, s) IN htmlToStringLoop(h.S, h.ret)
         [] S1.token = "EndElement" ->
               [S |-> S1, ret |-> s \o <<"<", "/">> \o name(S1) \o <<">">>]
         [] S1.token = "Characters" ->
               htmlToStringLoop(S1, IF s # <<>> \/ ~isWhitespace(S1)
                                    THEN s \o toHtmlEscaped(text(S1))
                                    ELSE s)
         [] OTHER -> [S |-> S1, ret |-> s]

htmlToString(S, s) ==
    htmlToStringLoop(S, s \o <<"<">> \o name(S) \o attributesText(S, 1) \o <<">">>)

RECURSIVE readXmlFrom(_, _)
\* The loop of readXml, S being the stream after its readNext.
readXmlFrom(S, s) ==
    CASE S.token = "EndElement" -> [S |-> S, ret |-> s]
      [] S.token = "StartElement" ->
            LET h == htmlToString(S, s) IN readXmlFrom(readNext(h.S), h.ret)
      [] S.token = "Characters" ->
            readXmlFrom(readNext(S), s \o toHtmlEscaped(text(S)))
      [] OTHER -> [S |-> S, ret |-> s]

readXml(S) == readXmlFrom(readNext(S), <<>>)

\* Longest element text read.
MaxTextLen == 3

TextChars == {"5", "8", "/"}

RECURSIVE Texts(_)
Texts(k) ==
    IF k = 0 THEN {<<>>}
    ELSE Texts(k - 1) \cup {Append(t, c) : t \in {u \in Texts(k - 1) : Len(u) = k - 1},
                                           c \in TextChars}

AttrValues == {<<"1">>, <<"4">>, <<"1", ".", "5">>}

\* The attributes an element can carry: any of the keys K, each with one of
\* the values V.
Attributes(K, V) == UNION {[P -> V] : P \in SUBSET K}

\* The documents read: an element with the attributes z and n and a text,
\* one with the attributes x, y, w, h, one with the attributes r, g, b, a.
FractionDocs ==
    {[attrs |-> f, text |-> t] :
        f \in Attributes(AttrKeys, AttrValues), t \in Texts(MaxTextLen)}

ShapeDocs ==
    {[attrs |-> f, text |-> t] :
        f \in Attributes({"x", "y", "w", "h"}, {<<"1", ".", "5">>}),
        t \in {<<>>, <<"5">>, <<"&">>}}

ColorDocs ==
    {[attrs |-> f, text |-> <<>>] :
        f \in Attributes({"r", "g", "b", "a"}, {<<"4">>})}

Docs == FractionDocs \cup ShapeDocs \cup ColorDocs

IntDefaults == {7}
DoubleDefaults == {Fr(5, 2)}
StringDefaults == {<<"d">>}
Ranges == {<<Fr(0, 1), Fr(1, 1)>>, <<Fr(6, 1), Fr(9, 1)>>}

\* A call record: the function, its key, the default handed in (if any),
\* whether the call signalled a failure, and the value returned.
NoParse == [op |-> "none", key |-> "", hasDefault |-> FALSE, default |-> 0,
            signalled |-> FALSE, ret |-> 0]

ParseRunning == ~aborted

SetStream(S) ==
    /\ token' = S.token
    /\ attrs' = S.attrs
    /\ elemText' = S.text

\* A reader is constructed over a document, in a debug or a release build.
OpenDocument ==
    /\ lastOp = "init"
    /\ \E d \in Docs : attrs' = d.attrs /\ elemText' = d.text
    /\ debugBuild' \in BOOLEAN
    /\ parseOut' = NoParse
    /\ lastOp' = "openDocument"
    /\ UNCHANGED <<spannerVars, connVars, cursorVars, styleVars, tupletVars, token, aborted>>

\* The caller moves the stream to the start tag; the accessors do not move
\* the stream.
StartElement ==
    /\ ParseRunning
    /\ SetStream(readNextStartElement(Stream))
    /\ parseOut' = NoParse
    /\ lastOp' = "startElement"
    /\ UNCHANGED <<spannerVars, connVars, cursorVars, styleVars, tupletVars, debugBuild, aborted>>

IntAttribute ==
    /\ ParseRunning
    /\ \E s \in AttrKeys :
          \/ parseOut' = [NoParse EXCEPT !.op = "intAttribute", !.key = s,
                                         !.ret = intAttribute(Stream, s)]
          \/ \E d \in IntDefaults :
                parseOut' = [NoParse EXCEPT !.op = "intAttribute", !.key = s,
                                            !.hasDefault = TRUE, !.default = d,
                                            !.ret = intAttributeDefault(Stream, s, d)]
    /\ lastOp' = "intAttribute"
    /\ UNCHANGED <<spannerVars, connVars, cursorVars, styleVars, tupletVars, attrs, elemText,
                   token, debugBuild, aborted>>

DoubleAttribute ==
    /\ ParseRunning
    /\ \E s \in AttrKeys :
          \/ parseOut' = [NoParse EXCEPT !.op = "doubleAttribute", !.key = s,
                                         !.ret = doubleAttribute(Stream, s)]
          \/ \E d \in DoubleDefaults :
                parseOut' = [NoParse EXCEPT !.op = "doubleAttribute", !.key = s,
                                            !.hasDefault = TRUE, !.default = d,
                                            !.ret = doubleAttributeDefault(Stream, s, d)]
    /\ lastOp' = "doubleAttribute"
    /\ UNCHANGED <<spannerVars, connVars, cursorVars, styleVars, tupletVars, attrs, elemText,
                   token, debugBuild, aborted>>

Attribute ==
    /\ ParseRunning
    /\ \E s \in AttrKeys :
          \/ parseOut' = [NoParse EXCEPT !.op = "attribute", !.key = s,
                                         !.ret = attribute(Stream, s)]
          \/ \E d \in StringDefaults :
                parseOut' = [NoParse EXCEPT !.op = "attribute", !.key = s,
                                            !.hasDefault = TRUE, !.default = d,
                                            !.ret = attributeDefault(Stream, s, d)]
    /\ lastOp' = "attribute"
    /\ UNCHANGED <<spannerVars, connVars, cursorVars, styleVars, tupletVars, attrs, elemText,
                   token, debugBuild, aborted>>

\* The effect of a reading call: the debug build aborts it when asserts is
\* set and the stream is not on a start tag; otherwise it leaves the stream
\* S and the call record out.
ReaderCall(op, asserts, S, out) ==
    /\ IF asserts /\ AssertFails(Stream, debugBuild)
       THEN /\ aborted' = TRUE
            /\ parseOut' = [NoParse EXCEPT !.op = op]
            /\ UNCHANGED <<attrs, elemText, token>>
       ELSE /\ aborted' = FALSE
            /\ parseOut' = out
            /\ SetStream(S)
    /\ lastOp' = op
    /\ UNCHANGED <<spannerVars, connVars, cursorVars, styleVars, tupletVars, debugBuild>>

ReadFraction ==
    /\ ParseRunning
    /\ ReaderCall("readFraction", TRUE, readElementText(Stream).S,
               [NoParse EXCEPT !.op = "readFraction", !.ret = readFraction])

Unknown ==
    /\ ParseRunning
    /\ ReaderCall("unknown", FALSE, unknown(Stream), [NoParse EXCEPT !.op = "unknown"])

ReadPoint ==
    LET r == readPoint(Stream, debugBuild)
    IN /\ ParseRunning
       /\ ReaderCall("readPoint", TRUE, r.S,
                  [NoParse EXCEPT !.op = "readPoint", !.ret = r.ret])

ReadColor ==
    LET r == readColor(Stream)
    IN /\ ParseRunning
       /\ ReaderCall("readColor", TRUE, r.S,
                  [NoParse EXCEPT !.op = "readColor", !.ret = r.ret])

ReadSize ==
    LET r == readSize(Stream)
    IN /\ ParseRunning
       /\ ReaderCall("readSize", TRUE, r.S,
                  [NoParse EXCEPT !.op = "readSize", !.ret = r.ret])

ReadScale ==
    LET r == readScale(Stream)
    IN /\ ParseRunning
       /\ ReaderCall("readScale", TRUE, r.S,
                  [NoParse EXCEPT !.op = "readScale", !.ret = r.ret])

ReadRect ==
    LET r == readRect(Stream)
    IN /\ ParseRunning
       /\ ReaderCall("readRect", TRUE, r.S,
                  [NoParse EXCEPT !.op = "readRect", !.ret = r.ret])

ReadDouble ==
    \E mm \in Ranges :
        LET r == readDouble(Stream, mm[1], mm[2])
        IN /\ ParseRunning
           /\ ReaderCall("readDouble", FALSE, r.S,
                      [NoParse EXCEPT !.op = "readDouble", !.default = mm[1],
                                      !.ret = r.ret])

ReadBool ==
    LET r == readBool(Stream)
    IN /\ ParseRunning
       /\ ReaderCall("readBool", FALSE, r.S,
                  [NoParse EXCEPT !.op = "readBool", !.ret = r.ret])

HtmlToString ==
    LET r == htmlToString(Stream, <<>>)
    IN /\ ParseRunning
       /\ ReaderCall("htmlToString", FALSE, r.S,
                  [NoParse EXCEPT !.op = "htmlToString", !.ret = r.ret])

ReadXml ==
    LET r == readXml(Stream)
    IN /\ ParseRunning
       /\ ReaderCall("readXml", FALSE, r.S,
                  [NoParse EXCEPT !.op = "readXml", !.ret = r.ret])

(***************************************************************************)
(* Specifications.                                                         *)
(***************************************************************************)
InitConn ==
    /\ frag = <<>>
    /\ prev = <<>>
    /\ next = <<>>
    /\ updated = <<>>
    /\ connectors = <<>>
    /\ pendingConnectors = <<>>
    /\ score = <<>>
    /\ hung = FALSE
    /\ destroyed = FALSE
    /\ released = {}
    /\ deleted = {}
    /\ repairRuns = 0

InitCursor ==
    /\ pasteMode = FALSE
    /\ tick = Fr(0, 1)
    /\ intTick = 0
    /\ track = 0
    /\ trackOffset = 0
    /\ tickOffset = Fr(0, 1)
    /\ curMeasure = None
    /\ crashed = FALSE
    /\ locArg = NoLocation
    /\ locForce = FALSE
    /\ locOut = NoLocation

InitStyles ==
    /\ userTextStyles = <<>>
    /\ styleCalls = <<>>

InitTuplets ==
    /\ tupletElems = <<>>
    /\ tupletIds = {}
    /\ tupletFreed = {}
    /\ tupletLog = <<>>
    /\ tupletsChecked = FALSE
    /\ tupletCrashed = FALSE

(***************************************************************************)
(* The spanner registry: _spanner is a list of (id, pointer) pairs.        *)
(* A Spanner pointer is a number; None is the null pointer.                *)
(***************************************************************************)
\* Longest spanner list.
MaxSpanners == 3

SpannerIds == {1, 2}
SpannerPtrs == {1, 2}

\* The value spannerId returns for an unregistered pointer.
NotFound == 0 - 1

\* The list q without its k-th entry.
RemoveAt(q, k) == [i \in 1..(Len(q) - 1) |-> IF i < k THEN q[i] ELSE q[i + 1]]

RECURSIVE removeOneFrom(_, _, _)
\* QList::removeOne: removes the first entry equal to v, if there is one.
removeOneFrom(q, v, i) ==
    IF i > Len(q) THEN q
    ELSE IF q[i] = v THEN RemoveAt(q, i)
    ELSE removeOneFrom(q, v, i + 1)

removeOne(q, v) == removeOneFrom(q, v, 1)

addSpanner(q, id, s) == Append(q, [id |-> id, s |-> s])

\* removeSpanner taking out every entry that holds s.
removeSpanner_All(q, s) == SelectSeq(q, LAMBDA e : e.s # s)

RECURSIVE removeSpannerFrom(_, _, _)
\* The loop of removeSpanner from entry i on.
removeSpannerFrom(q, s, i) ==
    IF i > Len(q) THEN q
    ELSE IF q[i].s = s THEN removeOne(q, q[i])
    ELSE removeSpannerFrom(q, s, i + 1)

removeSpanner(q, s) == removeSpannerFrom(q, s, 1)

RECURSIVE findSpannerFrom(_, _, _)
findSpannerFrom(q, id, i) ==
    IF i > Len(q) THEN None
    ELSE IF q[i].id = id THEN q[i].s
    ELSE findSpannerFrom(q, id, i + 1)

findSpanner(q, id) == findSpannerFrom(q, id, 1)

RECURSIVE spannerIdFrom(_, _, _)
spannerIdFrom(q, s, i) ==
    IF i > Len(q) THEN NotFound
    ELSE IF q[i].s = s THEN q[i].id
    ELSE spannerIdFrom(q, s, i + 1)

spannerId(q, s) == spannerIdFrom(q, s, 1)

NoSpannerCall == [op |-> "none", id |-> 0, s |-> None, before |-> <<>>, ret |-> 0]

SpannerCall(op, id, s, ret) ==
    /\ spannerOut' = [op |-> op, id |-> id, s |-> s, before |-> spanner, ret |-> ret]
    /\ lastOp' = op
    /\ UNCHANGED <<connVars, cursorVars, styleVars, tupletVars, parseVars>>

AddSpanner ==
    /\ Len(spanner) < MaxSpanners
    /\ \E id \in SpannerIds, s \in SpannerPtrs :
          /\ spanner' = addSpanner(spanner, id, s)
          /\ SpannerCall("addSpanner", id, s, 0)

RemoveSpanner ==
    \E s \in SpannerPtrs :
        /\ spanner' = removeSpanner(spanner, s)
        /\ SpannerCall("removeSpanner", 0, s, 0)

FindSpanner ==
    \E id \in SpannerIds :
        /\ spanner' = spanner
        /\ SpannerCall("findSpanner", id, None, findSpanner(spanner, id))

SpannerId ==
    \E s \in SpannerPtrs :
        /\ spanner' = spanner
        /\ SpannerCall("spannerId", 0, s, spannerId(spanner, s))

InitSpanners ==
    /\ spanner = <<>>
    /\ spannerOut = NoSpannerCall

InitParse ==
    /\ attrs = NoAttrs
    /\ elemText = <<>>
    /\ token = "NoToken"
    /\ debugBuild = FALSE
    /\ aborted = FALSE
    /\ parseOut = NoParse

Init ==
    /\ InitConn
    /\ InitCursor
    /\ InitStyles
    /\ InitTuplets
    /\ InitParse
    /\ InitSpanners
    /\ lastOp = "init"

\* The connector pool while a document is read.
Next ==
    \/ AddConnectorInfo
    \/ AddConnectorInfoLater
    \/ CheckConnectors
    \/ ReconnectBrokenConnectors

Spec == Init /\ [][Next]_vars

\* The repair study: fragments are added directly, then repaired.
RepairAddConnectorInfo == AddInfo(FragInputs, MaxRepairFrags)

NextRepair ==
    \/ RepairAddConnectorInfo
    \/ ReconnectBrokenConnectors

SpecRepair == Init /\ [][NextRepair]_vars

\* The joining study: how one addConnectorInfo call and one repair pass pick
\* the fragments they link, over fragments anchored at two ticks.
MaxJoinFrags == 4

JoinInputs == [id : Ids, role : Roles, tick : {0, 1}, track : Tracks, ctype : CTypes]

JoinAddConnectorInfo == AddInfo(JoinInputs, MaxJoinFrags)

NextJoin ==
    \/ JoinAddConnectorInfo
    \/ ReconnectBrokenConnectors

SpecJoin == Init /\ [][NextJoin]_vars

\* The teardown study: the reader is destroyed with fragments left.
NextDtor ==
    \/ DtorAddConnectorInfo
    \/ DtorAddConnectorInfoLater
    \/ CheckConnectors
    \/ XmlReaderDtor

SpecDtor == Init /\ [][NextDtor]_vars

\* The cursor study.
NextCursor ==
    \/ SetTick
    \/ IncTick
    \/ SetTrack
    \/ SetTrackOffset
    \/ SetTickOffset
    \/ SetCurrentMeasure
    \/ SetPasteMode
    \/ FillLocation
    \/ SetLocation

SpecCursor == Init /\ [][NextCursor]_vars

\* The tick and its cached integer mirror.
NextTick ==
    \/ TickSetTick
    \/ TickIncTick

SpecTick == Init /\ [][NextTick]_vars

\* The user text style table.
NextStyles == AddUserTextStyle

SpecStyles == Init /\ [][NextStyles]_vars

\* The tuplet registry.
NextTuplets ==
    \/ AddTuplet
    \/ CheckTuplets

SpecTuplets == Init /\ [][NextTuplets]_vars

\* The attribute accessors and readFraction.
NextParse ==
    \/ OpenDocument
    \/ StartElement
    \/ IntAttribute
    \/ DoubleAttribute
    \/ Attribute
    \/ ReadFraction
    \/ Unknown
    \/ ReadPoint
    \/ ReadColor
    \/ ReadSize
    \/ ReadScale
    \/ ReadRect
    \/ ReadDouble
    \/ ReadBool
    \/ HtmlToString
    \/ ReadXml

SpecParse == Init /\ [][NextParse]_vars

\* The spanner registry.
NextSpanners ==
    \/ AddSpanner
    \/ RemoveSpanner
    \/ FindSpanner
    \/ SpannerId

SpecSpanners == Init /\ [][NextSpanners]_vars

(***************************************************************************)
(* Helpers of the connector claims.                                        *)
(***************************************************************************)
Handles == 1..Len(frag)
InSeq(q, c) == \E i \in 1..Len(q) : q[i] = c
Active(c) == InSeq(connectors, c)
Live(c) == InSeq(connectors, c) \/ InSeq(pendingConnectors, c)
Unlinked(c) == prev[c] = None /\ next[c] = None
\* The addToScore calls whose chain holds fragment c.
Commits(sc, c) == {i \in 1..Len(sc) : InSeq(sc[i].chain, c)}
PoolAfter == [frag |-> frag', prev |-> prev', next |-> next', updated |-> updated',
              connectors |-> connectors', score |-> score', hung |-> hung']
\* s and e are the two fragments of one connector.
SameConnector(s, e) ==
    /\ frag[s].role = "start" /\ frag[e].role = "end"
    /\ frag[s].id = frag[e].id
    /\ Before(frag[s], frag[e])

\* C1: when a start and an end fragment of one connector (same id, start
\* anchored before end) are the only two fragments read and both have gone
\* through addConnectorInfo, in either order, the score holds exactly one
\* commit, of the chain <<start, end>>, and activeConnectors is empty.
C1_PairCommittedOnce ==
    Len(frag) = 2 =>
        \A s, e \in Handles :
            (/\ SameConnector(s, e)
             /\ updated[s] /\ updated[e])
            => /\ connectors = <<>>
               /\ Len(score) = 1
               /\ score[1].chain = <<s, e>>
               /\ ~Live(s) /\ ~Live(e)

\* C1 witness: the end fragment was added first, the start fragment second.
C1_Witness ==
    /\ Len(frag) = 2
    /\ SameConnector(2, 1)
    /\ lastOp = "addConnectorInfo"
    /\ updated[1] /\ updated[2]
    /\ Len(score) = 1

\* C2 as claimed: after addConnectorInfo of a start fragment while an
\* unlinked start fragment of the same id is active, both are unlinked
\* entries of activeConnectors and nothing has been committed by the call.
C2_Original ==
    [][\A c0 \in Handles :
          (/\ lastOp' = "addConnectorInfo"
           /\ Active(c0) /\ Unlinked(c0)
           /\ frag[c0].role = "start"
           /\ frag'[Len(frag')].role = "start"
           /\ frag'[Len(frag')].id = frag[c0].id)
          => LET c1 == Len(frag')
             IN /\ InSeq(connectors', c0) /\ InSeq(connectors', c1)
                /\ prev'[c0] = None /\ next'[c0] = None
                /\ prev'[c1] = None /\ next'[c1] = None
                /\ score' = score]_vars

\* The positions of activeConnectors holding an end fragment that can take
\* the new start fragment f: same id, anchored after f, no predecessor yet.
TakingEnds(f) ==
    {i \in 1..Len(connectors) :
        /\ frag[connectors[i]].role = "end"
        /\ frag[connectors[i]].id = f.id
        /\ prev[connectors[i]] = None
        /\ Before(f, frag[connectors[i]])}

\* C2 amended: in an addConnectorInfo call for a start fragment made while an
\* unlinked start fragment of the same id is in activeConnectors, the new
\* fragment is never linked to that pending start fragment, which stays an
\* unlinked uncommitted entry of activeConnectors.  When activeConnectors holds
\* no end fragment of that id, anchored after the new fragment, with no
\* predecessor, the new fragment stays an unlinked entry too and nothing is
\* committed.  Otherwise the new fragment becomes the predecessor of the
\* first such end fragment in insertion order; when the chain that now starts
\* at the new fragment ends in an end fragment, the call commits that chain
\* once and its fragments leave activeConnectors; when it does not, nothing is
\* committed and both fragments stay in activeConnectors.
C2_NoMergeOfStarts ==
    [][(/\ lastOp' = "addConnectorInfo"
        /\ Len(frag') = Len(frag) + 1
        /\ frag'[Len(frag')].role = "start") =>
          LET c1 == Len(frag')
              T == TakingEnds(frag'[c1])
          IN \A c0 \in Handles :
                (/\ frag[c0].role = "start"
                 /\ frag[c0].id = frag'[c1].id
                 /\ Unlinked(c0) /\ Active(c0))
                => /\ InSeq(connectors', c0)
                   /\ prev'[c0] = None /\ next'[c0] = None
                   /\ prev'[c1] # c0 /\ next'[c1] # c0
                   /\ Commits(score', c0) = {}
                   /\ IF T = {}
                      THEN /\ InSeq(connectors', c1)
                           /\ prev'[c1] = None /\ next'[c1] = None
                           /\ score' = score
                      ELSE LET e == connectors[CHOOSE i \in T : \A j \in T : i <= j]
                               last == Walk(next', c1, Len(next'))
                           IN /\ next'[c1] = e /\ prev'[e] = c1
                              /\ prev'[c1] = None
                              /\ IF last # None /\ frag'[last].role = "end"
                                 THEN /\ Len(score') = Len(score) + 1
                                      /\ SubSeq(score', 1, Len(score)) = score
                                      /\ score'[Len(score')].chain
                                            = ChainFrom(PoolAfter, c1, Len(frag'))
                                      /\ \A x \in 1..Len(frag') :
                                            InSeq(score'[Len(score')].chain, x)
                                                => ~InSeq(connectors', x)
                                 ELSE /\ score' = score
                                      /\ InSeq(connectors', c1)
                                      /\ InSeq(connectors', e)]_vars

\* C2 witness: with an unlinked start fragment of its id pending, a new start
\* fragment was linked to an end fragment that a repair pass had already
\* continued into a start fragment; nothing was committed and the pending
\* start fragment is still an unlinked entry of activeConnectors.
C2_Witness ==
    /\ lastOp = "addConnectorInfo"
    /\ Len(frag) >= 2
    /\ \E c0, e \in Handles :
          LET c1 == Len(frag)
          IN /\ c0 # c1
             /\ frag[c0].role = "start" /\ frag[c1].role = "start"
             /\ frag[c0].id = frag[c1].id
             /\ Active(c0) /\ Unlinked(c0)
             /\ next[c1] = e /\ prev[e] = c1
             /\ next[e] # None
             /\ Active(c1) /\ Active(e)
             /\ score = <<>>

\* C3: the connector pool is well formed: a live fragment that has a link
\* is in activeConnectors and so is the fragment it links to, the links are
\* mutual, and no two live fragments share a neighbour.
C3_PoolWellFormed ==
    \A a \in Handles :
        ((next[a] # None \/ prev[a] # None) /\ Live(a)) =>
            /\ next[a] # None => (Active(a) /\ Active(next[a]) /\ prev[next[a]] = a)
            /\ prev[a] # None => (Active(a) /\ Active(prev[a]) /\ next[prev[a]] = a)
            /\ \A b \in Handles \ {a} :
                  Live(b) =>
                      /\ next[a] # None => next[a] # next[b]
                      /\ prev[a] # None => prev[a] # prev[b]

\* C3 witness: after a repair pass a linked chain is still owned by
\* activeConnectors.
C3_Witness ==
    /\ lastOp = "reconnectBrokenConnectors"
    /\ \E a \in Handles : Active(a) /\ next[a] # None

\* The distance at which fragment a, with its end open, continues into b.
Dist(a, b) == orderedConnectionDistance(Pool, a, b)

\* The links are mutual: no fragment was joined twice on the same side.
JoinedOnce(P) ==
    \A a, b \in 1..Len(P.frag) :
        /\ P.next[a] = b => P.prev[b] = a
        /\ P.prev[b] = a => P.next[a] = b

\* C4 as claimed: in a repair pass, a fragment A with two candidate
\* continuations B and C, B nearer than C, is joined to B, and no fragment is
\* joined twice on the same side.
C4_Original ==
    [][lastOp' = "reconnectBrokenConnectors" =>
          /\ JoinedOnce(PoolAfter)
          /\ \A A, B, C \in Handles :
                (/\ Active(A) /\ Active(B) /\ Active(C)
                 /\ Dist(A, B) < Dist(A, C)
                 /\ Dist(A, C) < INT_MAX)
                => next'[A] = B]_vars

\* C5: when a repair pass returns, each fragment of a chain that is finished
\* under the links the pass leaves is out of activeConnectors and its chain
\* was committed by exactly one addToScore call, made by this pass; each
\* fragment of an unfinished chain is still in activeConnectors and in no
\* committed chain.
C5_FinishedCommittedOnce ==
    [][lastOp' = "reconnectBrokenConnectors" =>
          LET P == PoolAfter
          IN \A c \in Handles :
                Active(c) =>
                    LET commits == Commits(score', c)
                    IN IF finished(P, c)
                       THEN /\ ~InSeq(connectors', c)
                            /\ Cardinality(commits) = 1
                            /\ \A i \in commits :
                                  /\ i > Len(score)
                                  /\ score'[i].chain =
                                       ChainFrom(P, findFirst(P, c), Len(frag))
                       ELSE /\ InSeq(connectors', c)
                            /\ commits = {}]_vars

\* C5 witness: a repair pass committed a chain and left an unfinished
\* fragment in activeConnectors.
C5_Witness ==
    /\ lastOp = "reconnectBrokenConnectors"
    /\ score # <<>>
    /\ connectors # <<>>
    /\ \A i \in 1..Len(connectors) : ~finished(Pool, connectors[i])

\* C6 as claimed: once the reader is destroyed with fragments left in
\* activeConnectors or pendingConnectors, every remaining fragment's
\* connector was released, no connector of tuplet type was discarded, and
\* every released connector that exists and is not a tuplet was discarded.
C6_Original ==
    (destroyed /\ (connectors # <<>> \/ pendingConnectors # <<>>)) =>
        /\ \A c \in SeqSet(connectors) \cup SeqSet(pendingConnectors) : c \in released
        /\ \A c \in deleted : ~isTuplet(frag[c].ctype)
        /\ \A c \in released :
              (frag[c].ctype # "none" /\ ~isTuplet(frag[c].ctype)) => c \in deleted

\* The cursor fields the position operations leave, as a record.
SamePosition ==
    /\ FrEq(tick', tick)
    /\ track' = track
    /\ curMeasure' = curMeasure
    /\ ~crashed'

\* C7 as claimed: for every cursor state in which the call is defined (in
\* paste mode, or with a current measure), setLocation(location()) leaves
\* tick, track and currentMeasure unchanged.
C7_Original ==
    [][(/\ lastOp' = "setLocation"
        /\ locArg' = location(FALSE)
        /\ pasteMode \/ curMeasure # None)
       => SamePosition]_vars

\* What fillLocation is claimed to write into an unset field.
FilledTrack == track + trackOffset
FilledFrac ==
    IF pasteMode \/ locForce THEN FrAdd(tick, tickOffset)
    ELSE IF curMeasure # None THEN FrSub(tick, Measures[curMeasure])
    ELSE tick
FilledMeasure ==
    IF pasteMode \/ locForce THEN 0
    ELSE IF curMeasure # None THEN curMeasure - 1
    ELSE 0

\* C8: fillLocation changes only the fields of the Location that hold the
\* unset default; an unset track becomes the cursor's track, an unset frac
\* becomes the absolute tick in paste mode or forced absolute mode and the
\* tick relative to the current measure otherwise, an unset measure becomes
\* 0 in paste mode or forced absolute mode and the current measure's index
\* otherwise; a field the caller set is left as it was.
C8_FillsOnlyUnset ==
    lastOp = "fillLocation" =>
        /\ locOut.track = IF locArg.track = INT_MIN THEN FilledTrack ELSE locArg.track
        /\ locOut.frac = IF locArg.frac = Fr(INT_MIN, 1) THEN FilledFrac ELSE locArg.frac
        /\ locOut.measure = IF locArg.measure = INT_MIN THEN FilledMeasure
                            ELSE locArg.measure
        /\ locOut.rel = locArg.rel

\* C8 witness: outside paste mode, in the second measure and with both
\* offsets set, fillLocation filled the unset frac and measure and left the
\* track the caller set.
C8_Witness ==
    /\ lastOp = "fillLocation"
    /\ ~pasteMode /\ ~locForce
    /\ curMeasure = 2
    /\ tickOffset # Fr(0, 1)
    /\ trackOffset # 0
    /\ locArg.track # INT_MIN
    /\ locArg.frac = Fr(INT_MIN, 1)
    /\ locArg.measure = INT_MIN
    /\ locOut.measure = 1
    /\ locOut.frac = FrSub(tick, Fr(1, 1))

\* The slot the k-th addUserTextStyle call is claimed to get.
SlotOfCall(k) == IF k <= 12 THEN USER(k) ELSE TEXT_TYPES

\* The names of the model that no call used.
UnusedNames ==
    (UNION {StyleNames(k) : k \in 1..MaxStyleCalls})
        \ {styleCalls[k].name : k \in 1..Len(styleCalls)}

\* C9: with distinct names, the k-th addUserTextStyle call returns the k-th
\* user slot for k <= 12 and the no-slot value after that; the table is the
\* (name, slot) entries of the first 12 calls and so never has more than 12
\* entries; lookupUserTextStyle returns the assigned slot of each recorded
\* name and the no-slot value for a refused name or one never added.
C9_TwelveSlots ==
    /\ Len(userTextStyles) <= 12
    /\ Len(userTextStyles) = IF Len(styleCalls) <= 12 THEN Len(styleCalls) ELSE 12
    /\ \A k \in 1..Len(styleCalls) :
          /\ styleCalls[k].ret = SlotOfCall(k)
          /\ k <= 12 => userTextStyles[k] = [name |-> styleCalls[k].name, ss |-> USER(k)]
          /\ lookupUserTextStyle(userTextStyles, styleCalls[k].name) = SlotOfCall(k)
    /\ \A n \in UnusedNames : lookupUserTextStyle(userTextStyles, n) = TEXT_TYPES

\* C9 witness: a thirteenth call was refused with a full table.
C9_Witness ==
    /\ Len(styleCalls) = 13
    /\ styleCalls[13].ret = TEXT_TYPES
    /\ Len(userTextStyles) = 12
    /\ styleCalls[12].ret = USER(12)

\* The calls checkTuplets made on tuplet t after deleting it.
CallsAfterDelete(t) ==
    {i \in 1..Len(tupletLog) :
        /\ tupletLog[i].t = t
        /\ tupletLog[i].op # "delete"
        /\ \E j \in 1..(i - 1) : tupletLog[j].t = t /\ tupletLog[j].op = "delete"}

\* C10 as claimed: after checkTuplets, a tuplet that had no elements is out
\* of the tuplet set and no operation was invoked on it after it was
\* discarded.
C10_Original ==
    tupletsChecked =>
        \A t \in tupletFreed :
            /\ t \notin tupletIds
            /\ CallsAfterDelete(t) = {}

\* The second of two reconnectBrokenConnectors calls in a row.
SecondRepair == lastOp' = "reconnectBrokenConnectors" /\ repairRuns >= 1

\* C11: a reconnectBrokenConnectors call made right after another one
\* commits nothing, makes no forced join and leaves activeConnectors as it
\* was (and so does nothing when activeConnectors is empty).
C11_SecondRepairNoOp ==
    [][SecondRepair =>
          /\ score' = score
          /\ prev' = prev /\ next' = next
          /\ connectors' = connectors
          /\ hung' = hung]_vars

\* C11 witness: a second call in a row has returned, after a first call that
\* committed a chain and left a force-joined, unfinished chain active.
C11_Witness ==
    /\ repairRuns = 2
    /\ score # <<>>
    /\ \E a \in Handles : Active(a) /\ next[a] # None

\* A non-empty string of digits.
IsNumber(q) == q # <<>> /\ AllDigits(q)

\* The digit strings that can be part of an element text.
NumberTexts == {t \in Texts(MaxTextLen) : IsNumber(t)}

\* C12: readFraction called on a start tag returns (a, b) for the element
\* text "a/b"; with no text it returns (z, n) from the attributes z and n;
\* for a text that is a number t with no slash it returns the value of t
\* ticks in lowest terms.
C12_ReadFraction ==
    [][(lastOp' = "readFraction" /\ token = "StartElement") =>
          /\ ~aborted'
          /\ \A a, b \in NumberTexts :
                elemText = a \o <<"/">> \o b
                    => parseOut'.ret = Fr(digitsValue(a), digitsValue(b))
          /\ (elemText = <<>> /\ {"z", "n"} \subseteq DOMAIN attrs
                 /\ IsNumber(attrs["z"]) /\ IsNumber(attrs["n"]))
                => parseOut'.ret = Fr(digitsValue(attrs["z"]), digitsValue(attrs["n"]))
          /\ IsNumber(elemText)
                => /\ ticks(parseOut'.ret) = digitsValue(elemText)
                   /\ reduced(parseOut'.ret) = parseOut'.ret]_vars

\* C12 witness: readFraction read the element to its end tag and returned
\* the value of 5 ticks, which only the text "5" gives.
C12_Witness ==
    /\ lastOp = "readFraction"
    /\ ~aborted
    /\ token = "EndElement"
    /\ parseOut.ret = Fr(1, 384)

\* The last call was an attribute accessor called for an absent key.
AbsentKeyCall ==
    /\ parseOut.op \in {"intAttribute", "doubleAttribute", "attribute"}
    /\ ~hasAttribute(Stream, parseOut.key)

\* C13 as claimed: an attribute accessor called for an absent key returns
\* the default when one is given, and signals a missing required attribute
\* when none is given.
C13_Original ==
    AbsentKeyCall =>
        IF parseOut.hasDefault
        THEN /\ ~parseOut.signalled
             /\ parseOut.ret = parseOut.default
        ELSE parseOut.signalled

\* The pool an addConnectorInfo call scans: the pool before the call with
\* the new fragment appended.
PoolScanned ==
    LET c == Len(frag')
        P == NewFrag(Pool, frag'[c])
    IN [P EXCEPT !.connectors = Append(@, c)]

\* The positions of activeConnectors whose connect with the new fragment
\* succeeds.
Matches ==
    {i \in 1..Len(connectors) :
        connect(PoolScanned, connectors[i], Len(frag')).ok}

\* The links of fragment x after the call.
LinksAfter(x) == {prev'[x], next'[x]} \ {None}

\* C14: one addConnectorInfo call links the new fragment to no entry when no
\* entry's connect succeeds, and otherwise to exactly the first entry of
\* activeConnectors, in insertion order, whose connect succeeds; the links
\* of every other fragment stay as they were, and at most one chain is
\* committed.
C14_FirstMatchOnly ==
    [][(lastOp' = "addConnectorInfo" /\ Len(frag') = Len(frag) + 1) =>
          LET c == Len(frag')
              first == CHOOSE i \in Matches : \A j \in Matches : i <= j
          IN /\ Len(score') <= Len(score) + 1
             /\ IF Matches = {}
                THEN /\ LinksAfter(c) = {}
                     /\ score' = score
                     /\ \A x \in Handles : prev'[x] = prev[x] /\ next'[x] = next[x]
                ELSE /\ LinksAfter(c) = {connectors[first]}
                     /\ \A x \in Handles \ {connectors[first]} :
                           prev'[x] = prev[x] /\ next'[x] = next[x]]_vars

\* C14 witness: a new start fragment was linked to the older of two open end
\* fragments of its id, both anchored after it; the newer one was not tried
\* and is still an unlinked entry of activeConnectors.
C14_Witness ==
    /\ lastOp = "addConnectorInfo"
    /\ \E e1, e2 \in Handles :
          LET c == Len(frag)
          IN /\ e1 < e2 /\ e2 < c
             /\ frag[c].role = "start"
             /\ next[c] = e1
             /\ SameConnector(c, e2)
             /\ Active(e2) /\ Unlinked(e2)
             /\ Len(score) = 1

\* The pairs a step links: a got b as its successor or b got a as its
\* predecessor.
JoinedBy(a, b) ==
    \/ next'[a] = b /\ next[a] # b
    \/ prev'[b] = a /\ prev[b] # a

\* The connection distance of the pair before the pass, in either order of
\* the two, is the infinite distance.
InfinitePair(a, b) ==
    \/ Abs(connectionDistance(Pool, a, b)) = INT_MAX
    \/ Abs(connectionDistance(Pool, b, a)) = INT_MAX

\* C15: reconnectBrokenConnectors joins no pair of fragments whose
\* connection distance is INT_MAX, whichever of the two is taken first and
\* whatever other pairs there are.
C15_NoInfiniteJoin ==
    [][lastOp' = "reconnectBrokenConnectors" =>
          \A a, b \in Handles : JoinedBy(a, b) => ~InfinitePair(a, b)]_vars

\* C15 witness: a repair pass joined and committed a start and an end
\* fragment of different ids and left alone another start fragment, whose
\* distance to the joined start fragment is infinite.
C15_Witness ==
    /\ lastOp = "reconnectBrokenConnectors"
    /\ score # <<>>
    /\ \E s1, s2, e \in Handles :
          /\ score[Len(score)].chain = <<s2, e>>
          /\ frag[s2].id # frag[e].id
          /\ frag[s1].role = "start" /\ frag[s2].role = "start"
          /\ s1 # s2
          /\ Active(s1) /\ Unlinked(s1)

RECURSIVE Replay(_, _)
\* The pool after one addConnectorInfo call for each fragment of q, in the
\* order of q.
Replay(P, q) ==
    IF q = <<>> THEN P
    ELSE Replay(addConnectorInfo(P, Head(q), pasteMode), Tail(q))

\* C16: checkConnectors leaves the pool that one addConnectorInfo call per
\* pending fragment, in queue order, leaves, and empties pendingConnectors;
\* addConnectorInfo and reconnectBrokenConnectors leave pendingConnectors as
\* it was.
C16_PendingMergedOnlyByCheck ==
    [][/\ lastOp' = "checkConnectors"
          => /\ pendingConnectors' = <<>>
             /\ PoolAfter = Replay(Pool, pendingConnectors)
       /\ lastOp' \in {"addConnectorInfo", "reconnectBrokenConnectors"}
          => pendingConnectors' = pendingConnectors]_vars

\* C16 witness: checkConnectors has emptied the queue; the older of two end
\* fragments of one connector took the start fragment and was committed
\* with it, the newer one is an unlinked entry of activeConnectors.
C16_Witness ==
    /\ lastOp = "checkConnectors"
    /\ pendingConnectors = <<>>
    /\ \E s, e1, e2 \in Handles :
          /\ s < e1 /\ e1 < e2
          /\ Len(score) = 1
          /\ score[1].chain = <<s, e1>>
          /\ SameConnector(s, e2)
          /\ Active(e2) /\ Unlinked(e2)

\* C19 as claimed: after setTick and incTick calls the tick is in lowest
\* terms and the cached integer tick is the tick value of tick, also for
\* fractions that are no whole number of ticks.
C19_Original ==
    lastOp \in {"setTick", "incTick"} =>
        /\ reduced(tick) = tick
        /\ intTick = ticks(tick)

\* The current measure, if there is one, holds the tick.
InMeasure == curMeasure # None => FrLeq(Measures[curMeasure], tick)

\* A setLocation call with a relative Location that crosses no measure
\* boundary, made where the call is defined (in paste mode, or with a
\* current measure) with the cursor inside its measure.
RelativeCall ==
    /\ lastOp' = "setLocation"
    /\ locArg'.rel
    /\ locArg'.measure = 0
    /\ pasteMode \/ curMeasure # None
    /\ InMeasure

\* The fast path of setLocation is taken for the Location r.
FastPath(r) == FrEq(tick, fromTicks(intTick + ticks(r.frac)))

\* The cursors the recompute path leaves for the relative Location r.
SlowPath(r) == setLocationAbsolute(Cursor, toAbsolute(r, location(FALSE)))

\* C17 as claimed: setLocation(r) for a relative r that crosses no measure
\* boundary advances tick by r's time delta and track by r's track delta,
\* and when the fast path is taken, tick, the cached integer tick and track
\* are those the recompute path would leave.
C17_Original ==
    [][RelativeCall =>
          /\ ~crashed'
          /\ FrEq(tick', FrAdd(tick, locArg'.frac))
          /\ track' = track + locArg'.track
          /\ FastPath(locArg')
                => \E C \in SlowPath(locArg') :
                      /\ ~C.crashed
                      /\ FrEq(tick', C.tick)
                      /\ intTick' = C.intTick
                      /\ track' = C.track]_vars

\* A setLocation call with an absolute Location that returned.
AbsoluteCall ==
    /\ lastOp' = "setLocation"
    /\ ~locArg'.rel
    /\ ~crashed'

\* C18 as claimed: after setLocation with an absolute Location, track is
\* loc.track - trackOffset and tick is (loc.frac - tickOffset) plus the
\* start tick of the current measure, in paste mode and outside it.
C18_Original ==
    [][(AbsoluteCall /\ curMeasure # None) =>
          /\ track' = locArg'.track - trackOffset
          /\ FrEq(tick', FrAdd(FrSub(locArg'.frac, tickOffset),
                                Measures[curMeasure]))]_vars

\* C18 amended: after setLocation with an absolute Location, track is
\* loc.track - trackOffset; in paste mode tick is loc.frac - tickOffset,
\* with no advance by a measure's start tick; outside paste mode, with a
\* current measure, tick is (loc.frac - tickOffset) plus the start tick of
\* the current measure.
C18_AdvanceOutsidePasteOnly ==
    [][AbsoluteCall =>
          /\ track' = locArg'.track - trackOffset
          /\ pasteMode => FrEq(tick', FrSub(locArg'.frac, tickOffset))
          /\ (~pasteMode /\ curMeasure # None)
                => FrEq(tick', FrAdd(FrSub(locArg'.frac, tickOffset),
                                     Measures[curMeasure]))]_vars

\* C18 witness: in paste mode, with the second measure current and both
\* offsets set, setLocation of an absolute Location left loc.frac -
\* tickOffset as the tick.
C18_Witness ==
    /\ lastOp = "setLocation"
    /\ ~locArg.rel
    /\ ~crashed
    /\ pasteMode
    /\ curMeasure = 2
    /\ tickOffset # Fr(0, 1)
    /\ trackOffset # 0
    /\ FrEq(tick, FrSub(locArg.frac, tickOffset))
    /\ track = locArg.track - trackOffset

\* q is in ascending order.
Ascending(q) == \A i, j \in 1..Len(q) : i < j => q[i] <= q[j]

\* The positions of the log holding a call op on tuplet t.
CallsOf(op, t) == {i \in 1..Len(tupletLog) : tupletLog[i].op = op /\ tupletLog[i].t = t}

\* C20: in checkTuplets, each tuplet with elements is sorted once and then
\* sanitized once, its elements in ascending time order when sanitizeTuplet
\* runs; and every addMissingElements call comes after every sortElements
\* and sanitizeTuplet call of the run.
C20_SortBeforeSanitizeBeforeFill ==
    tupletsChecked =>
        /\ \A t \in tupletIds \ tupletFreed :
              /\ Cardinality(CallsOf("sortElements", t)) = 1
              /\ Cardinality(CallsOf("sanitizeTuplet", t)) = 1
              /\ \A i \in CallsOf("sortElements", t), j \in CallsOf("sanitizeTuplet", t) :
                    /\ i < j
                    /\ Ascending(tupletLog[j].elems)
        /\ \A i, j \in 1..Len(tupletLog) :
              (/\ tupletLog[i].op = "addMissingElements"
               /\ tupletLog[j].op \in {"sortElements", "sanitizeTuplet"})
              => j < i

\* C20 witness: checkTuplets ran on two tuplets with elements, one streamed
\* out of time order; that one was sorted, then sanitized in ascending
\* order, and addMissingElements ran on it after both tuplets' first pass.
C20_Witness ==
    /\ tupletsChecked
    /\ Cardinality(tupletIds \ tupletFreed) >= 2
    /\ \E t \in tupletIds, i, j, k \in 1..Len(tupletLog) :
          /\ tupletLog[i] = Call("sortElements", t, <<2, 1>>)
          /\ tupletLog[j] = Call("sanitizeTuplet", t, <<1, 2>>)
          /\ tupletLog[k] = Call("addMissingElements", t, <<1, 2>>)
          /\ i < j /\ j < k

\* The positions of the registry q holding pointer s, and those with id.
Holding(q, s) == {i \in 1..Len(q) : q[i].s = s}
WithId(q, id) == {i \in 1..Len(q) : q[i].id = id}
Earliest(S) == CHOOSE i \in S : \A j \in S : i <= j

\* q2 is q1 with exactly its k-th entry taken out, the others in their order.
WithoutEntry(q1, k, q2) ==
    /\ Len(q2) = Len(q1) - 1
    /\ \A i \in 1..Len(q2) : q2[i] = IF i < k THEN q1[i] ELSE q1[i + 1]

\* C21: removeSpanner(s) takes out exactly the earliest entry holding s, keeps
\* the other entries in their order, and changes nothing when s is not
\* registered; findSpanner(id) returns the pointer of the earliest entry
\* with that id, or null; spannerId(s) returns the id of the earliest entry
\* holding s, or -1 when s is not registered; the two lookups leave the
\* registry as it was.
C21_SpannerRegistry ==
    [][/\ lastOp' = "removeSpanner" =>
             LET H == Holding(spanner, spannerOut'.s)
             IN IF H = {} THEN spanner' = spanner
                ELSE WithoutEntry(spanner, Earliest(H), spanner')
       /\ lastOp' = "findSpanner" =>
             LET W == WithId(spanner, spannerOut'.id)
             IN /\ spanner' = spanner
                /\ spannerOut'.ret = IF W = {} THEN None ELSE spanner[Earliest(W)].s
       /\ lastOp' = "spannerId" =>
             LET H == Holding(spanner, spannerOut'.s)
             IN /\ spanner' = spanner
                /\ spannerOut'.ret = IF H = {} THEN 0 - 1 ELSE spanner[Earliest(H)].id]_vars

\* C21 witness: removeSpanner ran on a registry holding the pointer twice,
\* under different ids and not at the head, and took out the earlier entry
\* only.
C21_Witness ==
    /\ lastOp = "removeSpanner"
    /\ Len(spannerOut.before) = 3
    /\ Holding(spannerOut.before, spannerOut.s) = {2, 3}
    /\ spannerOut.before[2].id # spannerOut.before[3].id
    /\ spanner = <<spannerOut.before[1], spannerOut.before[3]>>

\* Following next from c comes to a fragment with no successor.
NextWalkEnds(c) == Walk(next, c, Len(next)) # None

\* Following prev from c comes to a chain head.
PrevWalkEnds(c) == Walk(prev, c, Len(prev)) # None

\* C22 as claimed: the forced joins of reconnectBrokenConnectors close no
\* cycle of prev/next links, so following next or prev from any fragment
\* comes to an end and no chain walk of the reader fails to terminate.
C22_Original ==
    /\ ~hung
    /\ \A c \in Handles : NextWalkEnds(c) /\ PrevWalkEnds(c)
====
